---------------------------- MODULE Spec2Model ----------------------------
(***************************************************************************)
(* A model of backend/app.py: the price extractor (extract_price), the     *)
(* link discoverer (search_links), the per-link crawl (crawl_price) and    *)
(* the request handler (best_price).                                       *)
(*                                                                         *)
(* Texts are sequences of characters; a character is a one-character       *)
(* string, except for the characters named below.  Prices are counted in   *)
(* hundredths (25,999.50 is 2599950): every match of the price patterns    *)
(* has at most two decimals, so the float the code parses is determined by *)
(* this integer, and float comparison agrees with integer comparison.      *)
(***************************************************************************)
EXTENDS Integers, Sequences, FiniteSets, TLC

VARIABLES
    \* extract_price on its own: its argument, its list, its result, its place
    text, prices, price, xpc,
    \* search_links after its fetch: the content, its three lists, its place
    content, all_links, clean_links, unique_links, lpc,
    \* one request to /best-price
    request,        \* the JSON body
    pc,             \* where best_price stands
    loop,           \* the event loop of the request: none, open, closed
    search_fetches, \* the fetches search_links has issued
    search_outcome, \* what its fetch did: nothing yet, returned, raised
    links,          \* what search_links returned
    task,           \* per link: its crawl_price task is pending, fetching, done
    fetches,        \* per link: the fetches crawl_price has issued
    fetched,        \* per link: what its fetch gave (a result, or the exception)
    obs,            \* per link: what its crawl_price returned
    done_order,     \* the links in the order their tasks completed
    response        \* the answer

xvars == <<text, prices, price, xpc>>
lvars == <<content, all_links, clean_links, unique_links, lpc>>
rvars == <<request, pc, loop, search_fetches, search_outcome, links, task, fetches, fetched, obs,
           done_order, response>>
vars == <<xvars, lvars, rvars>>

-----------------------------------------------------------------------------
(* Characters *)

\* the rupee sign, the double and the single quote, and the line break
Rs == "Rs"
DQ == "DQ"
SQ == "SQ"
NL == "NL"

\* read past either end of a text
EOT == "EOT"

Digit == {"0", "1", "2", "3", "4", "5", "6", "7", "8", "9"}
\* the class \s
Space == {" ", "TAB", NL, "CR", "FF", "VT"}
\* the class [\d,]
DigitComma == Digit \cup {","}

LowerOf == [c \in {"A","B","C","D","E","F","G","H","I","J","K","L","M",
                   "N","O","P","Q","R","S","T","U","V","W","X","Y","Z"} |->
    CASE c = "A" -> "a" [] c = "B" -> "b" [] c = "C" -> "c" [] c = "D" -> "d"
      [] c = "E" -> "e" [] c = "F" -> "f" [] c = "G" -> "g" [] c = "H" -> "h"
      [] c = "I" -> "i" [] c = "J" -> "j" [] c = "K" -> "k" [] c = "L" -> "l"
      [] c = "M" -> "m" [] c = "N" -> "n" [] c = "O" -> "o" [] c = "P" -> "p"
      [] c = "Q" -> "q" [] c = "R" -> "r" [] c = "S" -> "s" [] c = "T" -> "t"
      [] c = "U" -> "u" [] c = "V" -> "v" [] c = "W" -> "w" [] c = "X" -> "x"
      [] c = "Y" -> "y" [] c = "Z" -> "z"]

\* re.IGNORECASE: letters compare by their lower case
Lower(c) == IF c \in DOMAIN LowerOf THEN LowerOf[c] ELSE c

DigitVal(c) ==
    CASE c = "0" -> 0 [] c = "1" -> 1 [] c = "2" -> 2 [] c = "3" -> 3
      [] c = "4" -> 4 [] c = "5" -> 5 [] c = "6" -> 6 [] c = "7" -> 7
      [] c = "8" -> 8 [] c = "9" -> 9

-----------------------------------------------------------------------------
(* Regular-expression matching, as re does it: leftmost, greedy.  In every *)
(* pattern of the program a greedy run is followed by something the run's  *)
(* class excludes, so no match is found by giving characters back.         *)

At(s, i) == IF i \in 1..Len(s) THEN s[i] ELSE EOT

\* the literal lit stands at position i of s (ic: ignoring case)
LitAt(s, i, lit, ic) ==
    /\ i >= 1
    /\ i + Len(lit) - 1 <= Len(s)
    /\ \A k \in 1..Len(lit) :
          IF ic THEN Lower(s[i + k - 1]) = Lower(lit[k]) ELSE s[i + k - 1] = lit[k]

\* the end of the longest run of characters of class cls from position i
SkipIn(s, i, cls) ==
    IF i > Len(s) THEN i
    ELSE CHOOSE j \in i..(Len(s) + 1) :
             /\ j = Len(s) + 1 \/ s[j] \notin cls
             /\ \A k \in i..(j - 1) : s[k] \in cls

\* the end of the longest run of characters outside cls from position i
SkipNotIn(s, i, cls) ==
    IF i > Len(s) THEN i
    ELSE CHOOSE j \in i..(Len(s) + 1) :
             /\ j = Len(s) + 1 \/ s[j] \in cls
             /\ \A k \in i..(j - 1) : s[k] \notin cls

\* a match: its group is s[from..to-1], and the match ends before position end
Fail == [ok |-> FALSE, from |-> 0, to |-> 0, end |-> 0]
Hit(g, e, n) == [ok |-> TRUE, from |-> g, to |-> e, end |-> n]

\* the group ([\d,]+(?:\.\d{1,2})?) at position g, or ([\d,]+) when ~dec
Num(s, g, dec) ==
    LET e1 == SkipIn(s, g, DigitComma)
        e2 == IF dec /\ At(s, e1) = "." /\ At(s, e1 + 1) \in Digit
              THEN (IF At(s, e1 + 2) \in Digit THEN e1 + 3 ELSE e1 + 2)
              ELSE e1
    IN  IF e1 = g THEN Fail ELSE Hit(g, e2, e2)

\* lit[^>]*> at position i: the position after the ">", or 0
AfterTag(s, i, lit) ==
    IF ~LitAt(s, i, lit, TRUE) THEN 0
    ELSE LET j == SkipNotIn(s, i + Len(lit), {">"})
         IN  IF At(s, j) = ">" THEN j + 1 ELSE 0

\* r'Rs\s*([\d,]+(?:\.\d{1,2})?)'
Pat1(s, i) ==
    IF At(s, i) # Rs THEN Fail ELSE Num(s, SkipIn(s, i + 1, Space), TRUE)

\* r'"price":\s*"Rs([\d,]+(?:\.\d{1,2})?)"'
Pat2(s, i) ==
    LET lit == <<"DQ","p","r","i","c","e","DQ",":">>
        j == SkipIn(s, i + Len(lit), Space)
        m == Num(s, j + 2, TRUE)
    IN  IF LitAt(s, i, lit, TRUE) /\ At(s, j) = DQ /\ At(s, j + 1) = Rs
           /\ m.ok /\ At(s, m.end) = DQ
        THEN Hit(m.from, m.to, m.end + 1) ELSE Fail

\* r'priceblock_dealprice[^>]*>Rs\s*([\d,]+(?:\.\d{1,2})?)'
Pat3(s, i) ==
    LET p == AfterTag(s, i, <<"p","r","i","c","e","b","l","o","c","k","_","d","e","a","l","p","r","i","c","e">>)
    IN  IF p # 0 /\ At(s, p) = Rs THEN Num(s, SkipIn(s, p + 1, Space), TRUE) ELSE Fail

\* r'priceblock_ourprice[^>]*>Rs\s*([\d,]+(?:\.\d{1,2})?)'
Pat4(s, i) ==
    LET p == AfterTag(s, i, <<"p","r","i","c","e","b","l","o","c","k","_","o","u","r","p","r","i","c","e">>)
    IN  IF p # 0 /\ At(s, p) = Rs THEN Num(s, SkipIn(s, p + 1, Space), TRUE) ELSE Fail

\* r'a-price-whole[^>]*>([\d,]+)'
Pat5(s, i) ==
    LET p == AfterTag(s, i, <<"a","-","p","r","i","c","e","-","w","h","o","l","e">>)
    IN  IF p # 0 THEN Num(s, p, FALSE) ELSE Fail

\* r'Rs([\d,]+)\s*</div>'
Pat6(s, i) ==
    LET lit == <<"<","/","d","i","v",">">>
        m == Num(s, i + 1, FALSE)
        k == SkipIn(s, m.end, Space)
    IN  IF At(s, i) = Rs /\ m.ok /\ LitAt(s, k, lit, TRUE)
        THEN Hit(m.from, m.to, k + Len(lit)) ELSE Fail

\* r'"sellingPrice":\s*{\s*"amount":\s*([\d,]+)'
Pat7(s, i) ==
    LET lit1 == <<"DQ","s","e","l","l","i","n","g","P","r","i","c","e","DQ",":">>
        lit2 == <<"DQ","a","m","o","u","n","t","DQ",":">>
        j == SkipIn(s, i + Len(lit1), Space)
        k == SkipIn(s, j + 1, Space)
    IN  IF LitAt(s, i, lit1, TRUE) /\ At(s, j) = "{" /\ LitAt(s, k, lit2, TRUE)
        THEN Num(s, SkipIn(s, k + Len(lit2), Space), FALSE) ELSE Fail

\* r'_30jeq3[^>]*>Rs([\d,]+)'
Pat8(s, i) ==
    LET p == AfterTag(s, i, <<"_","3","0","j","e","q","3">>)
    IN  IF p # 0 /\ At(s, p) = Rs THEN Num(s, p + 1, FALSE) ELSE Fail

\* r'(?:price|cost|amount)[^Rs]*Rs\s*([\d,]+(?:\.\d{1,2})?)'
Pat9(s, i) ==
    LET kw == IF LitAt(s, i, <<"p","r","i","c","e">>, TRUE) THEN 5
              ELSE IF LitAt(s, i, <<"c","o","s","t">>, TRUE) THEN 4
              ELSE IF LitAt(s, i, <<"a","m","o","u","n","t">>, TRUE) THEN 6 ELSE 0
        j == SkipNotIn(s, i + kw, {Rs})
    IN  IF kw # 0 /\ At(s, j) = Rs THEN Num(s, SkipIn(s, j + 1, Space), TRUE) ELSE Fail

\* r'Rs\s*([\d,]+(?:\.\d{1,2})?)\s*(?:only|/-)'
Pat10(s, i) ==
    LET m == Num(s, SkipIn(s, i + 1, Space), TRUE)
        k == SkipIn(s, m.end, Space)
    IN  IF At(s, i) = Rs /\ m.ok
        THEN IF LitAt(s, k, <<"o","n","l","y">>, TRUE) THEN Hit(m.from, m.to, k + 4)
             ELSE IF LitAt(s, k, <<"/","-">>, TRUE) THEN Hit(m.from, m.to, k + 2)
             ELSE Fail
        ELSE Fail

\* the classes [A-Z0-9], [a-z0-9] and [\s<>"\']
UpperDigit == DOMAIN LowerOf \cup Digit
LowerDigit == {LowerOf[c] : c \in DOMAIN LowerOf} \cup Digit
Quote == {"<", ">", DQ, SQ}
SpaceQuote == Space \cup Quote

\* r'https://www\.amazon\.in/[^/]+/dp/[A-Z0-9]+[^\s<>"\']*'
\* r'https://www\.flipkart\.com/[^/]+/p/[a-z0-9]+[^\s<>"\']*'
\* both: pre [^/]+ mid [ids]+ [^\s<>"\']*, the whole match being the group
ProductUrl(s, i, pre, mid, ids) ==
    LET a == i + Len(pre)
        j == SkipNotIn(s, a, {"/"})
        b == j + Len(mid)
        k == SkipIn(s, b, ids)
        e == SkipNotIn(s, k, SpaceQuote)
    IN  IF LitAt(s, i, pre, FALSE) /\ j > a /\ LitAt(s, j, mid, FALSE) /\ k > b
        THEN Hit(i, e, e) ELSE Fail

Pat11(s, i) == ProductUrl(s, i, <<"h","t","t","p","s",":","/","/","w","w","w",".","a","m","a","z","o","n",".","i","n","/">>, <<"/","d","p","/">>, UpperDigit)

Pat12(s, i) == ProductUrl(s, i, <<"h","t","t","p","s",":","/","/","w","w","w",".","f","l","i","p","k","a","r","t",".","c","o","m","/">>, <<"/","p","/">>, LowerDigit)

\* r'https://www\.ebay\.com/itm/[^\s<>"\']*'
Pat13(s, i) ==
    LET pre == <<"h","t","t","p","s",":","/","/","w","w","w",".","e","b","a","y",".","c","o","m","/","i","t","m","/">>
        e == SkipNotIn(s, i + Len(pre), SpaceQuote)
    IN  IF LitAt(s, i, pre, FALSE) THEN Hit(i, e, e) ELSE Fail

\* the patterns, in the order of their lists
price_patterns == 1..10
url_patterns == 11..13

PatAt(p, s, i) ==
    CASE p = 1 -> Pat1(s, i) [] p = 2 -> Pat2(s, i) [] p = 3 -> Pat3(s, i)
      [] p = 4 -> Pat4(s, i) [] p = 5 -> Pat5(s, i) [] p = 6 -> Pat6(s, i)
      [] p = 7 -> Pat7(s, i) [] p = 8 -> Pat8(s, i) [] p = 9 -> Pat9(s, i)
      [] p = 10 -> Pat10(s, i) [] p = 11 -> Pat11(s, i) [] p = 12 -> Pat12(s, i)
      [] p = 13 -> Pat13(s, i)

\* re.findall(pattern, text) from position i on: the groups of the
\* non-overlapping matches, left to right
RECURSIVE FindAll(_, _, _)
FindAll(p, s, i) ==
    IF i > Len(s) THEN <<>>
    ELSE LET j == CHOOSE j \in i..(Len(s) + 1) :
                      /\ j = Len(s) + 1 \/ PatAt(p, s, j).ok
                      /\ \A k \in i..(j - 1) : ~PatAt(p, s, k).ok
             m == PatAt(p, s, j)
         IN  IF j > Len(s) THEN <<>>
             ELSE <<SubSeq(s, m.from, m.to - 1)>> \o FindAll(p, s, m.end)

-----------------------------------------------------------------------------
(* extract_price *)

MinPrice == 1000
MaxPrice == 200000

\* a run of digits as a number; beyond Huge (which is out of range, as the
\* float of a longer run is) the value is no longer told apart
Huge == 10 * MaxPrice
RECURSIVE IntOf(_, _, _)
IntOf(ds, i, acc) ==
    IF i > Len(ds) THEN acc
    ELSE LET n == acc * 10 + DigitVal(ds[i])
         IN  IntOf(ds, i + 1, IF n > Huge THEN Huge ELSE n)

\* float(match.replace(",", "")), in hundredths: <<v>>, or <<>> for ValueError
ParseFloat(match) ==
    LET t == SelectSeq(match, LAMBDA c : c # ",")
        d == SkipIn(t, 1, Digit)
        whole == SubSeq(t, 1, d - 1)
        frac == IF d <= Len(t) THEN SubSeq(t, d + 1, Len(t)) ELSE <<>>
        cents == IF Len(frac) = 0 THEN 0
                 ELSE IF Len(frac) = 1 THEN 10 * DigitVal(frac[1])
                 ELSE 10 * DigitVal(frac[1]) + DigitVal(frac[2])
    IN  IF Len(whole) = 0 /\ Len(frac) = 0 THEN <<>>
        ELSE <<100 * IntOf(whole, 1, 0) + cents>>

\* a faulty variant of InRange: the bounds left out
InRangeStrict(v) == 100 * MinPrice < v /\ v < 100 * MaxPrice

\* if 1000 <= price <= 200000
InRange(v) == 100 * MinPrice <= v /\ v <= 100 * MaxPrice

\* the inner loop: the in-range values of the matches ms, in order
RECURSIVE Keep(_)
Keep(ms) ==
    IF ms = <<>> THEN <<>>
    ELSE LET v == ParseFloat(Head(ms))
         IN  (IF v # <<>> /\ InRange(v[1]) THEN v ELSE <<>>) \o Keep(Tail(ms))

\* the outer loop: the list prices after patterns p..10
RECURSIVE Collect(_, _)
Collect(s, p) ==
    IF p \notin price_patterns THEN <<>>
    ELSE Keep(FindAll(p, s, 1)) \o Collect(s, p + 1)

\* unique_prices.sort()
RECURSIVE SortAsc(_)
SortAsc(S) ==
    IF S = {} THEN <<>>
    ELSE LET m == CHOOSE x \in S : \A y \in S : x <= y
         IN  <<m>> \o SortAsc(S \ {m})

None == -1

\* a faulty variant of Select: the lower of two middle values
SelectLowerMiddle(ps) ==
    LET unique_prices == SortAsc({ps[k] : k \in 1..Len(ps)})
    IN  IF ps = <<>> THEN None
        ELSE unique_prices[((Len(unique_prices) - 1) \div 2) + 1]

\* lines 48-57: the value returned for the list ps
Select(ps) ==
    LET unique_prices == SortAsc({ps[k] : k \in 1..Len(ps)})
    IN  IF ps = <<>> THEN None
        ELSE IF Len(unique_prices) = 1 THEN unique_prices[1]
        ELSE unique_prices[(Len(unique_prices) \div 2) + 1]

extract_price(s) == Select(Collect(s, 1))

-----------------------------------------------------------------------------
(* search_links, after its fetch *)

\* None, where a text is expected
NoText == <<"None">>

\* result.cleaned_html or result.markdown or ""
Or(a, b) == IF a # NoText /\ a # <<>> THEN a ELSE b
ContentOf(result) == Or(Or(result.cleaned_html, result.markdown), <<>>)

\* lines 102-105: the matches, pattern by pattern
RECURSIVE AllLinks(_, _)
AllLinks(s, p) ==
    IF p \notin url_patterns THEN <<>>
    ELSE FindAll(p, s, 1) \o AllLinks(s, p + 1)

\* .*$ matches from position j: no line break follows, but for a last one
LineEnd(s, j) == SkipNotIn(s, j, {NL})
ToEnd(s, j) == LineEnd(s, j) >= Len(s)

\* s without its leftmost match, the matches starting at the positions ms
\* and reaching to the end of the line
CutAt(s, ms) ==
    IF ms = {} THEN s
    ELSE LET i == CHOOSE i \in ms : \A k \in ms : i <= k
         IN  SubSeq(s, 1, i - 1) \o SubSeq(s, LineEnd(s, i), Len(s))

\* re.sub(r'[<>"\']+.*$', '', link)
SubQuote(s) ==
    CutAt(s, {i \in 1..Len(s) : s[i] \in Quote /\ ToEnd(s, SkipIn(s, i, Quote))})

\* re.sub(r'&amp;.*$', '', clean_link)
SubAmp(s) ==
    LET lit == <<"&","a","m","p",";">>
    IN  CutAt(s, {i \in 1..Len(s) : LitAt(s, i, lit, FALSE) /\ ToEnd(s, i + Len(lit))})

Sanitize(link) == SubAmp(SubQuote(link))

Contains(s, lit) == \E i \in 1..Len(s) : LitAt(s, i, lit, FALSE)

\* re.match(r'^https?://', clean_link)
HasScheme(s) ==
    /\ LitAt(s, 1, <<"h","t","t","p">>, FALSE)
    /\ \/ LitAt(s, 5, <<":","/","/">>, FALSE)
       \/ LitAt(s, 5, <<"s",":","/","/">>, FALSE)

MinLinkLen == 30

\* lines 115-117
Valid(clean_link) ==
    /\ HasScheme(clean_link)
    /\ Len(clean_link) > MinLinkLen
    /\ \/ Contains(clean_link, <<"d","p","/">>)
       \/ Contains(clean_link, <<"/","p","/">>)
       \/ Contains(clean_link, <<"i","t","m","/">>)

\* lines 108-118
RECURSIVE CleanLinks(_)
CleanLinks(ls) ==
    IF ls = <<>> THEN <<>>
    ELSE LET clean_link == Sanitize(Head(ls))
         IN  (IF Valid(clean_link) THEN <<clean_link>> ELSE <<>>) \o CleanLinks(Tail(ls))

\* list(dict.fromkeys(ls)): each element once, at its first place
RECURSIVE FromKeys(_, _)
FromKeys(ls, seen) ==
    IF ls = <<>> THEN <<>>
    ELSE IF Head(ls) \in seen THEN FromKeys(Tail(ls), seen)
    ELSE <<Head(ls)>> \o FromKeys(Tail(ls), seen \cup {Head(ls)})

MaxLinks == 3

\* a faulty variant of UniqueLinks: no cut after the third
UniqueLinksUncapped(ls) == FromKeys(ls, {})

\* line 121
UniqueLinks(ls) ==
    LET u == FromKeys(ls, {})
    IN  SubSeq(u, 1, IF Len(u) < MaxLinks THEN Len(u) ELSE MaxLinks)

\* lines 93-123: what search_links returns for a fetched result
LinksOf(result) == UniqueLinks(CleanLinks(AllLinks(ContentOf(result), 11)))

-----------------------------------------------------------------------------
(* crawl_price *)

\* (result.cleaned_html or "") + " " + (result.markdown or "")
PageText(result) ==
    Or(result.cleaned_html, <<>>) \o <<" ">> \o Or(result.markdown, <<>>)

\* an absent key of a dict, or the value under it
Absent == <<>>
Some(v) == <<v>>

\* no observation yet
NoObs == [url |-> <<>>, price |-> None, error |-> Absent]

\* lines 76-79: the observation of a fetched page
Crawled(url, result) ==
    [raised |-> FALSE,
     value |-> [url |-> url, price |-> extract_price(PageText(result)), error |-> Absent]]

\* a faulty variant of CrawlFailed: no handler, the exception leaves crawl_price
CrawlFailedRaises(url, msg) == [raised |-> TRUE, value |-> NoObs]

\* lines 80-82: the observation of a fetch that raised e, msg being str(e)
CrawlFailed(url, msg) ==
    [raised |-> FALSE,
     value |-> [url |-> url, price |-> None, error |-> Some(msg)]]

-----------------------------------------------------------------------------
(* best_price *)

\* str.strip()
RECURSIVE LStrip(_)
LStrip(s) == IF s # <<>> /\ Head(s) \in Space THEN LStrip(Tail(s)) ELSE s
RECURSIVE RStrip(_)
RStrip(s) ==
    IF s # <<>> /\ s[Len(s)] \in Space THEN RStrip(SubSeq(s, 1, Len(s) - 1)) ELSE s
\* a faulty variant of Strip: the product taken as sent
NoStrip(s) == s
Strip(s) == RStrip(LStrip(s))

\* request.json.get("product", "")
ProductOf(req) == IF req.has_product THEN req.product ELSE <<>>

\* a character urllib.parse.quote cannot encode as UTF-8 (a lone surrogate)
Surrogate == "SURR"
QuoteRaises(product) == \E k \in 1..Len(product) : product[k] = Surrogate

\* a faulty variant of SearchFailed: no handler, the exception leaves search_links
SearchFailedRaises == [raised |-> TRUE, value |-> <<>>]

\* lines 125-127: what search_links does with an exception of its fetch
SearchFailed == [raised |-> FALSE, value |-> <<>>]

\* a faulty variant of Gather: the results in the order of completion
GatherAsCompleted(os, order) == [k \in 1..Len(order) |-> os[order[k]]]

\* asyncio.gather(*tasks): the results in the order of the tasks
Gather(os, order) == [i \in 1..Len(os) |-> os[i]]

\* a faulty variant of Joined: the first task done ends the wait
JoinedAny(ts) == \E i \in 1..Len(ts) : ts[i] = "done"

\* the tasks gather waits for are all done
Joined(ts) == \A i \in 1..Len(ts) : ts[i] = "done"

\* a faulty variant of MayStart: a task that failed starts again
MayRestart(ts, os, i) == ts[i] = "pending" \/ (ts[i] = "done" /\ os[i].error # Absent)

\* a pending task may start (each coroutine runs once)
MayStart(ts, os, i) == ts[i] = "pending"

\* line 146
Priced(results) == SelectSeq(results, LAMBDA r : r.price # None)

\* a faulty variant of Better: an equal price replaces the best so far
BetterOrEqual(x, best) == x.price <= best.price

\* key(x) < key(best), the test by which min replaces its best so far
Better(x, best) == x.price < best.price

\* min(priced, key=lambda x: x["price"]), best being the least so far
RECURSIVE MinFrom(_, _)
MinFrom(rs, best) ==
    IF rs = <<>> THEN best
    ELSE MinFrom(Tail(rs), IF Better(Head(rs), best) THEN Head(rs) ELSE best)

\* line 147
Best(priced) == IF priced # <<>> THEN Some(MinFrom(Tail(priced), Head(priced))) ELSE Absent

\* the bodies of the answers
ErrorBody(status, msg) ==
    [status |-> status, error |-> Some(msg), product |-> <<>>, best |-> Absent,
     all |-> <<>>, found_links |-> 0]
Report(product, best, results, n) ==
    [status |-> 200, error |-> Absent, product |-> product, best |-> best,
     all |-> results, found_links |-> n]
NoResponse == ErrorBody(0, "")

\* what the fetcher may give for a product page
Pages == {
    [cleaned_html |-> <<"Rs","2","5",",","9","9","9">>, markdown |-> NoText],
    [cleaned_html |-> NoText, markdown |-> <<"Rs","2","4",",","9","9","9"," ","o","n","l","y">>],
    [cleaned_html |-> <<"Rs">>, markdown |-> <<"1",",","5","0","0"," ","Rs","3","5",",","0","0","0"," ","Rs","2","4",",","9","9","9">>],
    [cleaned_html |-> <<>>, markdown |-> <<>>] }

\* what the fetcher may give for the search
SearchResults == {
    [cleaned_html |-> <<>>, markdown |-> NoText],
    [cleaned_html |-> <<"<","a"," ","h","r","e","f","=","DQ","h","t","t","p","s",":","/","/","w","w","w",".","e","b","a","y",".","c","o","m","/","i","t","m","/","1","2","3","4","5","DQ",">">>,
     markdown |-> <<"h","t","t","p","s",":","/","/","w","w","w",".","e","b","a","y",".","c","o","m","/","i","t","m","/","1","2","3","4","5","6">>],
    [cleaned_html |-> NoText,
     markdown |-> <<"h","t","t","p","s",":","/","/","w","w","w",".","a","m","a","z","o","n",".","i","n","/","i","P","h","o","n","e","-","1","3","/","d","p","/","B","0","9","G","9","H","D","6","P","D","&","a","m","p",";","r","e","f","=","1"," ">>],
    [cleaned_html |-> <<"h","t","t","p","s",":","/","/","w","w","w",".","f","l","i","p","k","a","r","t",".","c","o","m","/","i","p","h","o","n","e","-","1","3","/","p","/","i","t","m","6","c","6"," ","h","t","t","p","s",":","/","/","w","w","w",".","a","m","a","z","o","n",".","i","n","/","i","P","h","o","n","e","-","1","3","/","d","p","/","B","0","9","G","9","H","D","6","P","D","DQ">>,
     markdown |-> <<>>],
    [cleaned_html |-> <<"h","t","t","p","s",":","/","/","w","w","w",".","e","b","a","y",".","c","o","m","/","i","t","m","/","1","2","3","4","5","6"," ","h","t","t","p","s",":","/","/","w","w","w",".","a","m","a","z","o","n",".","i","n","/","i","P","h","o","n","e","-","1","4","/","d","p","/","B","0","B"," ","h","t","t","p","s",":","/","/","w","w","w",".","f","l","i","p","k","a","r","t",".","c","o","m","/","i","p","h","o","n","e","-","1","4","/","p","/","i","t","m","9","e","6"," ","h","t","t","p","s",":","/","/","w","w","w",".","a","m","a","z","o","n",".","i","n","/","i","P","h","o","n","e","-","1","3","/","d","p","/","B","0","9","G","9","H","D","6","P","D"," ","h","t","t","p","s",":","/","/","w","w","w",".","a","m","a","z","o","n",".","i","n","/","i","P","h","o","n","e","-","1","4","/","d","p","/","B","0","B">>,
     markdown |-> NoText] }

\* str(e) of the exceptions a fetch may raise
Messages == {"Timeout 15000ms exceeded", ""}

\* the bodies of the requests
Requests == {
    [has_product |-> FALSE, product |-> <<>>],
    [has_product |-> TRUE, product |-> <<>>],
    [has_product |-> TRUE, product |-> <<" ","NL">>],
    [has_product |-> TRUE, product |-> NoText],
    [has_product |-> TRUE, product |-> <<" ","t","v"," ">>],
    [has_product |-> TRUE, product |-> <<"t", Surrogate>>] }

\* what a fetch did: nothing yet, returned a result, raised e (msg being str(e))
NoPage == [cleaned_html |-> NoText, markdown |-> NoText]
NotFetched == [kind |-> "nothing", result |-> NoPage, msg |-> ""]
Returned(result) == [kind |-> "returned", result |-> result, msg |-> ""]
Raised(msg) == [kind |-> "raised", result |-> NoPage, msg |-> msg]

RIdle ==
    /\ request = [has_product |-> FALSE, product |-> <<>>]
    /\ pc = "idle"
    /\ loop = "none"
    /\ search_fetches = 0
    /\ search_outcome = "nothing"
    /\ links = <<>>
    /\ task = <<>>
    /\ fetches = <<>>
    /\ fetched = <<>>
    /\ obs = <<>>
    /\ done_order = <<>>
    /\ response = NoResponse

RInit ==
    /\ request \in Requests
    /\ pc = "received"
    /\ loop = "none"
    /\ search_fetches = 0
    /\ search_outcome = "nothing"
    /\ links = <<>>
    /\ task = <<>>
    /\ fetches = <<>>
    /\ fetched = <<>>
    /\ obs = <<>>
    /\ done_order = <<>>
    /\ response = NoResponse

\* the answer, the loop being left as it is
Respond(r) ==
    /\ response' = r
    /\ pc' = "responded"

\* line 131 on a product that is no string: None.strip() raises before the
\* try, and the framework answers 500
NoString ==
    /\ pc = "received"
    /\ UNCHANGED <<xvars, lvars>>
    /\ ProductOf(request) = NoText
    /\ Respond(ErrorBody(500, "Internal Server Error"))
    /\ UNCHANGED <<request, loop, search_fetches, search_outcome, links, task, fetches,
                   fetched, obs, done_order>>

\* lines 131-133
Reject ==
    /\ pc = "received"
    /\ UNCHANGED <<xvars, lvars>>
    /\ ProductOf(request) # NoText
    /\ Strip(ProductOf(request)) = <<>>
    /\ Respond(ErrorBody(400, "No product name provided"))
    /\ UNCHANGED <<request, loop, search_fetches, search_outcome, links, task, fetches,
                   fetched, obs, done_order>>

\* lines 131-139 and 86-87, quote raising: the handler of line 156 answers,
\* and line 159 closes the loop
QuoteFails ==
    /\ pc = "received"
    /\ UNCHANGED <<xvars, lvars>>
    /\ ProductOf(request) # NoText
    /\ Strip(ProductOf(request)) # <<>>
    /\ QuoteRaises(Strip(ProductOf(request)))
    /\ loop' = "closed"
    /\ Respond(ErrorBody(500, "Server error: 'utf-8' codec can't encode"))
    /\ UNCHANGED <<request, search_fetches, search_outcome, links, task, fetches,
                   fetched, obs, done_order>>

\* lines 131-139 and 86-91: the loop is made and search_links issues its fetch
StartSearch ==
    /\ pc = "received"
    /\ UNCHANGED <<xvars, lvars>>
    /\ ProductOf(request) # NoText
    /\ Strip(ProductOf(request)) # <<>>
    /\ ~QuoteRaises(Strip(ProductOf(request)))
    /\ loop' = "open"
    /\ search_fetches' = search_fetches + 1
    /\ pc' = "searching"
    /\ UNCHANGED <<request, search_outcome, links, task, fetches, fetched, obs,
                   done_order, response>>

\* lines 139-144, search_links having given r: an exception reaches line 156,
\* no link is answered 404, and else gather makes a task per link
Searched(r) ==
    /\ loop' = IF r.raised \/ r.value = <<>> THEN "closed" ELSE loop
    /\ IF r.raised
       THEN /\ Respond(ErrorBody(500, "Server error"))
            /\ UNCHANGED <<links, task, fetches, fetched, obs>>
       ELSE /\ links' = r.value
            /\ IF r.value = <<>>
               THEN /\ Respond(ErrorBody(404, "No product links found"))
                    /\ UNCHANGED <<task, fetches, fetched, obs>>
               ELSE /\ task' = [i \in 1..Len(r.value) |-> "pending"]
                    /\ fetches' = [i \in 1..Len(r.value) |-> 0]
                    /\ fetched' = [i \in 1..Len(r.value) |-> NotFetched]
                    /\ obs' = [i \in 1..Len(r.value) |-> NoObs]
                    /\ pc' = "crawling"
                    /\ UNCHANGED response
    /\ UNCHANGED <<request, search_fetches, done_order>>

\* lines 93-123, the fetch of search_links having returned
SearchReturns ==
    /\ pc = "searching"
    /\ UNCHANGED <<xvars, lvars>>
    /\ search_outcome' = "returned"
    /\ \E result \in SearchResults : Searched([raised |-> FALSE, value |-> LinksOf(result)])

\* lines 125-127, the fetch of search_links having raised
SearchRaises ==
    /\ pc = "searching"
    /\ UNCHANGED <<xvars, lvars>>
    /\ search_outcome' = "raised"
    /\ Searched(SearchFailed)

\* lines 61-73: the task of link i issues its fetch
TaskStart(i) ==
    /\ pc = "crawling"
    /\ UNCHANGED <<xvars, lvars>>
    /\ MayStart(task, obs, i)
    /\ task' = [task EXCEPT ![i] = "fetching"]
    /\ fetches' = [fetches EXCEPT ![i] = @ + 1]
    /\ UNCHANGED <<request, pc, loop, search_fetches, search_outcome, links, fetched,
                   obs, done_order, response>>

\* the task of link i ends with r: its value is kept for gather, and an
\* exception passes through gather and run_until_complete to line 156
TaskEnds(i, r) ==
    /\ task' = [task EXCEPT ![i] = "done"]
    /\ done_order' = Append(done_order, i)
    /\ IF r.raised
       THEN /\ loop' = "closed"
            /\ Respond(ErrorBody(500, "Server error"))
            /\ UNCHANGED obs
       ELSE /\ obs' = [obs EXCEPT ![i] = r.value]
            /\ UNCHANGED <<pc, loop, response>>
    /\ UNCHANGED <<request, search_fetches, search_outcome, links, fetches>>

\* lines 76-79: the fetch of link i returns
FetchReturns(i) ==
    /\ pc = "crawling"
    /\ UNCHANGED <<xvars, lvars>>
    /\ task[i] = "fetching"
    /\ \E result \in Pages :
          /\ fetched' = [fetched EXCEPT ![i] = Returned(result)]
          /\ TaskEnds(i, Crawled(links[i], result))

\* lines 80-82: the fetch of link i raises
FetchRaises(i) ==
    /\ pc = "crawling"
    /\ UNCHANGED <<xvars, lvars>>
    /\ task[i] = "fetching"
    /\ \E msg \in Messages :
          /\ fetched' = [fetched EXCEPT ![i] = Raised(msg)]
          /\ TaskEnds(i, CrawlFailed(links[i], msg))

\* lines 144-159: gather returns, and the report is made
Join ==
    /\ pc = "crawling"
    /\ UNCHANGED <<xvars, lvars>>
    /\ Joined(task)
    /\ LET results == Gather(obs, done_order)
       IN  Respond(Report(Strip(ProductOf(request)), Best(Priced(results)), results,
                          Len(links)))
    /\ loop' = "closed"
    /\ UNCHANGED <<request, search_fetches, search_outcome, links, task, fetches,
                   fetched, obs, done_order>>

RNext ==
    \/ NoString
    \/ Reject
    \/ QuoteFails
    \/ StartSearch
    \/ SearchReturns
    \/ SearchRaises
    \/ \E i \in 1..Len(links) : TaskStart(i)
    \/ \E i \in 1..Len(links) : FetchReturns(i)
    \/ \E i \in 1..Len(links) : FetchRaises(i)
    \/ Join

-----------------------------------------------------------------------------
(* The extractor on its own: a text is up to MaxChunks of these pieces. *)

MaxChunks == 3

PriceChunks == {
    <<"Rs","1",",","0","0","0"," ">>,
    <<"_","3","0","j","e","q","3","DQ",">","Rs","9","9","9",".","9","9"," ">>,
    <<"C","o","s","t",":"," ","Rs"," ","2","0","0","0","0","0"," ","o","n","l","y">>,
    <<" ","Rs","2","0","0",",","0","0","0",".","0","1">>,
    <<"DQ","P","r","i","c","e","DQ",":"," ","DQ","Rs","2","5",",","9","9","9","DQ">>,
    <<"a","-","p","r","i","c","e","-","w","h","o","l","e","DQ",">","1",",","5","0","0","<">>,
    <<"Rs","2",",","5","0","0"," ","<","/","d","i","v",">">>,
    <<"DQ","s","e","l","l","i","n","g","P","r","i","c","e","DQ",":","{","DQ","a","m","o","u","n","t","DQ",":","3","5","0","0">>,
    <<"p","r","i","c","e","b","l","o","c","k","_","d","e","a","l","p","r","i","c","e","DQ",">","Rs"," ","1",",","5","0","0",".","5">>,
    <<"p","r","i","c","e","b","l","o","c","k","_","o","u","r","p","r","i","c","e",">","Rs",",">> }

RECURSIVE Texts(_)
Texts(n) ==
    IF n = 0 THEN {<<>>}
    ELSE LET shorter == Texts(n - 1)
         IN  shorter \cup {t \o c : t \in shorter, c \in PriceChunks}

XIdle ==
    /\ text = <<>>
    /\ prices = <<>>
    /\ price = None
    /\ xpc = "idle"

XInit ==
    /\ text \in Texts(MaxChunks)
    /\ prices = <<>>
    /\ price = None
    /\ xpc = "scan"

\* lines 35-45
Scan ==
    /\ xpc = "scan"
    /\ UNCHANGED <<lvars, rvars>>
    /\ prices' = Collect(text, 1)
    /\ xpc' = "select"
    /\ UNCHANGED <<text, price>>

\* lines 48-57
Return ==
    /\ xpc = "select"
    /\ UNCHANGED <<lvars, rvars>>
    /\ price' = Select(prices)
    /\ xpc' = "returned"
    /\ UNCHANGED <<text, prices>>

-----------------------------------------------------------------------------
(* The discoverer on its own: a content is up to MaxSearchChunks pieces. *)

MaxSearchChunks == 3

SearchChunks == {
    <<"h","t","t","p","s",":","/","/","w","w","w",".","a","m","a","z","o","n",".","i","n","/","i","P","h","o","n","e","-","1","3","/","d","p","/","B","0","9","G","9","H","D","6","P","D","DQ">>,
    <<"h","t","t","p","s",":","/","/","w","w","w",".","a","m","a","z","o","n",".","i","n","/","i","P","h","o","n","e","-","1","3","/","d","p","/","B","0","9","G","9","H","D","6","P","D","&","a","m","p",";","r","e","f","=","1"," ">>,
    <<"h","t","t","p","s",":","/","/","w","w","w",".","f","l","i","p","k","a","r","t",".","c","o","m","/","i","p","h","o","n","e","-","1","3","/","p","/","i","t","m","6","c","6"," ">>,
    <<"h","t","t","p","s",":","/","/","w","w","w",".","e","b","a","y",".","c","o","m","/","i","t","m","/","1","2","3","4","5"," ">>,
    <<"h","t","t","p","s",":","/","/","w","w","w",".","e","b","a","y",".","c","o","m","/","i","t","m","/","1","2","3","4","5","6","<">>,
    <<"h","t","t","p","s",":","/","/","w","w","w",".","a","m","a","z","o","n",".","i","n","/","a","DQ","b","/","d","p","/","B","0"," ">>,
    <<"h","t","t","p","s",":","/","/","w","w","w",".","a","m","a","z","o","n",".","i","n","/","a","SQ","NL","b","/","d","p","/","B","0","B","D","J","H","7","X","5","C"," ">>,
    <<"h","t","t","p","s",":","/","/","w","w","w",".","e","b","a","y",".","c","o","m","/","i","t","m","/","2","3","4","5","6","7"," ","h","t","t","p","s",":","/","/","w","w","w",".","e","b","a","y",".","c","o","m","/","i","t","m","/","3","4","5","6","7","8"," ","h","t","t","p","s",":","/","/","w","w","w",".","e","b","a","y",".","c","o","m","/","i","t","m","/","2","3","4","5","6","7","&","a","m","p",";","x"," ">> }

RECURSIVE Contents(_)
Contents(n) ==
    IF n = 0 THEN {<<>>}
    ELSE LET shorter == Contents(n - 1)
         IN  shorter \cup {t \o c : t \in shorter, c \in SearchChunks}

LIdle ==
    /\ content = <<>>
    /\ all_links = <<>>
    /\ clean_links = <<>>
    /\ unique_links = <<>>
    /\ lpc = "idle"

LInit ==
    /\ content \in Contents(MaxSearchChunks)
    /\ all_links = <<>>
    /\ clean_links = <<>>
    /\ unique_links = <<>>
    /\ lpc = "find"

\* lines 102-105
Find ==
    /\ lpc = "find"
    /\ UNCHANGED <<xvars, rvars>>
    /\ all_links' = AllLinks(content, 11)
    /\ lpc' = "clean"
    /\ UNCHANGED <<content, clean_links, unique_links>>

\* lines 108-118
Clean ==
    /\ lpc = "clean"
    /\ UNCHANGED <<xvars, rvars>>
    /\ clean_links' = CleanLinks(all_links)
    /\ lpc' = "unique"
    /\ UNCHANGED <<content, all_links, unique_links>>

\* lines 121-123
Unique ==
    /\ lpc = "unique"
    /\ UNCHANGED <<xvars, rvars>>
    /\ unique_links' = UniqueLinks(clean_links)
    /\ lpc' = "returned"
    /\ UNCHANGED <<content, all_links, clean_links>>

LNext == Find \/ Clean \/ Unique

XNext == Scan \/ Return

-----------------------------------------------------------------------------
(* The specifications *)

\* extract_price on every text
ExtractInit == XInit /\ LIdle /\ RIdle
SpecExtract == ExtractInit /\ [][XNext]_vars

\* search_links on every content
LinksInit == LInit /\ XIdle /\ RIdle
SpecLinks == LinksInit /\ [][LNext]_vars

\* one request
Init == RInit /\ XIdle /\ LIdle
Next == RNext
Spec == Init /\ [][Next]_vars

-----------------------------------------------------------------------------
(* The claims *)

Elems(seq) == {seq[k] : k \in 1..Len(seq)}

\* the observations of a report that have a price
PricedIn(all) == {i \in 1..Len(all) : all[i].price # None}

\* C1: in every 200 report, best is null exactly when no observation of all
\* has a price; otherwise best is an observation of all that has a price,
\* its price is the least of the prices in all, and of the observations with
\* that price it is the first in all.
C1_BestIsFirstMinimum ==
    response.status = 200 =>
        LET all == response.all
        IN  IF PricedIn(all) = {} THEN response.best = Absent
            ELSE \E i \in PricedIn(all) :
                    /\ response.best = <<all[i]>>
                    /\ \A j \in PricedIn(all) : all[i].price <= all[j].price
                    /\ \A j \in PricedIn(all) : j < i => all[j].price # all[i].price

\* a report in which two observations share the least price, and one has none
C1_Witness ==
    /\ response.status = 200
    /\ \E i, j, k \in 1..Len(response.all) :
          /\ i < j
          /\ response.all[i].price # None
          /\ response.all[i].price = response.all[j].price
          /\ response.all[k].price = None
          /\ response.best = <<response.all[i]>>

\* C2: a fetch that raises gives its own link an observation with an error
\* and no price, every other link the observation its own fetch decides (the
\* price extracted from its page, no error), and the request its 200 report
\* of all the observations: never a 500.
C2_FailureIsolated ==
    /\ \A i \in 1..Len(task) :
          task[i] = "done" =>
             IF fetched[i].kind = "raised"
             THEN obs[i] = [url |-> links[i], price |-> None,
                            error |-> <<fetched[i].msg>>]
             ELSE obs[i] = [url |-> links[i],
                            price |-> extract_price(PageText(fetched[i].result)),
                            error |-> <<>>]
    /\ (pc = "responded" /\ task # <<>>) =>
          /\ response.status = 200
          /\ response.all = obs

\* three links, the fetch of exactly one of them raised, the others priced
C2_Witness ==
    /\ response.status = 200
    /\ Len(links) = 3
    /\ Cardinality({i \in 1..3 : fetched[i].kind = "raised"}) = 1
    /\ Cardinality({i \in 1..3 : response.all[i].error # <<>>}) = 1
    /\ Cardinality({i \in 1..3 : response.all[i].price # None}) = 2

\* C3: whatever the order in which the tasks complete, all is as long as
\* the list of links and its i-th observation has the url of the i-th link.
C3_OrderIsInputOrder ==
    response.status = 200 =>
        /\ Len(response.all) = Len(links)
        /\ \A i \in 1..Len(links) : response.all[i].url = links[i]

\* a report of three links whose tasks completed last to first
C3_Witness ==
    /\ response.status = 200
    /\ done_order = <<3, 2, 1>>

\* the distinct in-range values of the text
Distinct == Elems(prices)
Below(v) == Cardinality({d \in Distinct : d < v})

\* C4, as claimed: of two or more distinct values the lower middle one is
\* returned, on an even count the lower of the two middle values.
C4_LowerMiddle ==
    (xpc = "returned" /\ Cardinality(Distinct) >= 2) =>
        /\ price \in Distinct
        /\ Below(price) = (Cardinality(Distinct) - 1) \div 2

\* C4, amended: of two or more distinct values the one with half of them
\* (rounded down) below it is returned: the middle value on an odd count,
\* the upper of the two middle values on an even count.
C4_UpperMiddle ==
    (xpc = "returned" /\ Cardinality(Distinct) >= 2) =>
        /\ price \in Distinct
        /\ Below(price) = Cardinality(Distinct) \div 2

\* two distinct values, the greater returned
C4_Witness ==
    /\ xpc = "returned"
    /\ Cardinality(Distinct) = 2
    /\ \A d \in Distinct : d <= price

\* the values of all the matches of all the patterns in s
Matched(s) ==
    UNION {{ParseFloat(m)[1] : m \in {n \in Elems(FindAll(p, s, 1)) : ParseFloat(n) # <<>>}} :
           p \in price_patterns}

\* C5: the values in the list are the matched values from 1000 to 200000,
\* both included, and no other; the result is one of them, or none when
\* there is none.
C5_OnlyInRange ==
    /\ xpc \in {"select", "returned"} =>
          Elems(prices) = {v \in Matched(text) : 1000 * 100 <= v /\ v <= 200000 * 100}
    /\ xpc = "returned" =>
          IF prices = <<>> THEN price = None
          ELSE 1000 * 100 <= price /\ price <= 200000 * 100

\* a text in which 1000, 200000 and a greater value are matched
C5_Witness ==
    /\ xpc = "returned"
    /\ Elems(prices) = {1000 * 100, 200000 * 100}
    /\ \E v \in Matched(text) : v > 200000 * 100

\* the first place of x in the sanitized, valid matches
FirstSeen(x) ==
    CHOOSE k \in 1..Len(clean_links) :
        clean_links[k] = x /\ \A j \in 1..(k - 1) : clean_links[j] # x

\* C6: search_links returns at most 3 links, no two of them equal, each a
\* sanitized match, in the order in which they are first seen and none
\* before the last of them left out; each starts with http:// or https://
\* and is at least 30 characters long.
C6_LinksBounded ==
    lpc = "returned" =>
        LET u == unique_links
        IN  /\ Len(u) <= 3
            /\ \A a, b \in 1..Len(u) : a # b => u[a] # u[b]
            /\ Elems(u) \subseteq Elems(clean_links)
            /\ \A a, b \in 1..Len(u) : a < b => FirstSeen(u[a]) < FirstSeen(u[b])
            /\ \A k \in 1..Len(clean_links) :
                  \/ clean_links[k] \in Elems(u)
                  \/ Len(u) = 3 /\ FirstSeen(u[3]) < k
            /\ \A a \in 1..Len(u) :
                  /\ \/ SubSeq(u[a], 1, 7) = <<"h","t","t","p",":","/","/">>
                     \/ SubSeq(u[a], 1, 8) = <<"h","t","t","p","s",":","/","/">>
                  /\ Len(u[a]) >= 30

\* more than three distinct links found, one of them twice
C6_Witness ==
    /\ lpc = "returned"
    /\ Len(unique_links) = 3
    /\ Cardinality(Elems(clean_links)) > 3
    /\ Cardinality(Elems(clean_links)) < Len(clean_links)

\* C7: a search fetch that raises, or a search that gives no valid link, is
\* answered 404 "No product links found", and no task and no fetch of a
\* link was ever started.
C7_NoLinksIs404 ==
    (search_outcome = "raised" \/ (search_outcome = "returned" /\ links = <<>>)) =>
        /\ pc = "responded"
        /\ response.status = 404
        /\ response.error = <<"No product links found">>
        /\ links = <<>>
        /\ task = <<>>
        /\ fetches = <<>>
        /\ search_fetches = 1

\* the search fetch raised
C7_Witness ==
    /\ search_outcome = "raised"
    /\ response.status = 404

\* the product is missing, or a string of white space only
Blank(req) ==
    \/ ~req.has_product
    \/ req.product # NoText /\ \A k \in 1..Len(req.product) : req.product[k] \in Space

\* C8: a request whose product is missing or blank is answered 400 "No
\* product name provided", and never has a loop, a search fetch or a task.
C8_BlankIs400 ==
    Blank(request) =>
        /\ loop = "none"
        /\ search_fetches = 0
        /\ task = <<>>
        /\ fetches = <<>>
        /\ pc = "responded" =>
              /\ response.status = 400
              /\ response.error = <<"No product name provided">>

\* a product of white space answered 400
C8_Witness ==
    /\ request.has_product
    /\ request.product # <<>>
    /\ Blank(request)
    /\ response.status = 400

\* C9: a 200 report is made only when the task of every link is done, and
\* holds the observation of each; while a task is not done there is no
\* answer; a 500 holds no report.
C9_NoPartialReport ==
    /\ response.status = 200 =>
          /\ Len(response.all) = Len(links)
          /\ \A i \in 1..Len(links) :
                /\ task[i] = "done"
                /\ fetched[i].kind # "nothing"
                /\ response.all[i] = obs[i]
    /\ (\E i \in 1..Len(task) : task[i] # "done") => response = NoResponse
    /\ response.status = 500 => response.all = <<>> /\ response.best = Absent

\* a report of three links, one fetch raised and one returned
C9_Witness ==
    /\ response.status = 200
    /\ Len(task) = 3
    /\ \E i, j \in 1..3 : fetched[i].kind = "raised" /\ fetched[j].kind = "returned"

\* C10: the search fetch is issued at most once and the fetch of each link
\* at most once, exactly once by the time of a 200 report; and once the
\* fetch of a link has raised, the link is not fetched again and its
\* observation stays the one with the error.
C10_NoRetries ==
    /\ [](/\ search_fetches <= 1
          /\ \A i \in 1..Len(fetches) : fetches[i] <= 1
          /\ response.status = 200 => \A i \in 1..Len(links) : fetches[i] = 1)
    /\ [][\A i \in 1..Len(task) :
             fetched[i].kind = "raised" =>
                /\ task'[i] = "done"
                /\ fetches'[i] = fetches[i]
                /\ obs'[i] = obs[i]
                /\ obs[i].error # <<>>]_vars

\* a report with a link whose only fetch raised
C10_Witness ==
    /\ response.status = 200
    /\ Len(links) >= 2
    /\ \E i \in 1..Len(links) : fetched[i].kind = "raised" /\ fetches[i] = 1

=============================================================================
